---------------------------- MODULE Spec2Model ----------------------------
(* Model of src/elt_bigquery.py: the synthetic sales-order generator        *)
(* (generate_and_upload_sales_data) and the Airflow DAG                     *)
(* "sales_orders_to_bigquery_with_transformation" that stages the CSV in    *)
(* object storage, loads it into the warehouse and runs the SQL jobs.       *)
(*                                                                          *)
(* Text is a sequence of one-character strings.  A CSV payload is kept as   *)
(* the sequence of its "\n"-terminated lines.  Floating-point amounts are   *)
(* kept as integers in thousandths (10.0 is 10000), dates as day numbers    *)
(* counted from 1970-01-01.                                                 *)
EXTENDS Integers, Sequences, FiniteSets

VARIABLES
    today,       \* the environment's current date (day number)
    gcs,         \* the object gs://BUCKET_NAME/GCS_PATH: NoObject or CSV lines
    stdout,      \* number of lines printed by the generator
    genCall,     \* record of the last call of generate_and_upload_sales_data
    base,        \* warehouse table BIGQUERY_TABLE (sequence of rows)
    procedure,   \* TRUE when the stored procedure PROCEDURE_NAME exists
    transformed, \* warehouse table TRANSFORMED_TABLE
    amountTable, \* warehouse table AMOUNT_TABLE
    taskState,   \* taskState[r][t]: state of task t in DAG run r
    clock        \* warehouse clock read by CURRENT_TIMESTAMP()

vars == <<today, gcs, stdout, genCall, base, procedure, transformed,
          amountTable, taskState, clock>>

(***************************************************************************)
(* Bounds of the model                                                     *)
(***************************************************************************)
\* largest num_orders passed to a direct call of the generator
MaxOrders == 2
\* number of DAG runs that may be triggered
MaxRuns == 2

(***************************************************************************)
(* Text helpers                                                            *)
(***************************************************************************)
DigitChars == <<"0", "1", "2", "3", "4", "5", "6", "7", "8", "9">>

IsDigit(c) == \E d \in 1..10 : DigitChars[d] = c

DigitVal(c) == (CHOOSE d \in 1..10 : DigitChars[d] = c) - 1

\* str(n) for a non-negative integer
RECURSIVE Digits(_)
Digits(n) ==
    IF n < 10 THEN <<DigitChars[n + 1]>>
    ELSE Digits(n \div 10) \o <<DigitChars[(n % 10) + 1]>>

\* "%02d" % n
Pad2(n) == IF n < 10 THEN <<"0">> \o Digits(n) ELSE Digits(n)

\* "%04d" % n
Pad4(n) ==
    IF n < 10 THEN <<"0", "0", "0">> \o Digits(n)
    ELSE IF n < 100 THEN <<"0", "0">> \o Digits(n)
    ELSE IF n < 1000 THEN <<"0">> \o Digits(n)
    ELSE Digits(n)

AllDigits(s) == Len(s) > 0 /\ \A i \in 1..Len(s) : IsDigit(s[i])

\* value of a non-empty digit string
RECURSIVE DigitsValue(_)
DigitsValue(s) ==
    IF Len(s) = 1 THEN DigitVal(s[1])
    ELSE 10 * DigitsValue(SubSeq(s, 1, Len(s) - 1)) + DigitVal(s[Len(s)])

\* ",".join(fields)
RECURSIVE JoinComma(_)
JoinComma(fields) ==
    IF Len(fields) = 0 THEN <<>>
    ELSE IF Len(fields) = 1 THEN fields[1]
    ELSE fields[1] \o <<",">> \o JoinComma(Tail(fields))

\* line.split(","): the fields of one CSV line (no field is quoted)
RECURSIVE SplitComma(_)
SplitComma(line) ==
    IF \A i \in 1..Len(line) : line[i] # ","
    THEN <<line>>
    ELSE LET k == CHOOSE i \in 1..Len(line) :
                      /\ line[i] = ","
                      /\ \A j \in 1..(i - 1) : line[j] # ","
         IN  <<SubSeq(line, 1, k - 1)>> \o SplitComma(SubSeq(line, k + 1, Len(line)))

(***************************************************************************)
(* Calendar dates (datetime.date): day number <-> (year, month, day)       *)
(***************************************************************************)
DaysFromCivil(y, m, d) ==
    LET yy  == IF m <= 2 THEN y - 1 ELSE y
        era == yy \div 400
        yoe == yy - era * 400
        mp  == IF m > 2 THEN m - 3 ELSE m + 9
        doy == (153 * mp + 2) \div 5 + d - 1
        doe == yoe * 365 + yoe \div 4 - yoe \div 100 + doy
    IN  era * 146097 + doe - 719468

CivilFromDays(z) ==
    LET zz  == z + 719468
        era == zz \div 146097
        doe == zz - era * 146097
        yoe == (doe - doe \div 1460 + doe \div 36524 - doe \div 146096) \div 365
        doy == doe - (365 * yoe + yoe \div 4 - yoe \div 100)
        mp  == (5 * doy + 2) \div 153
        d   == doy - (153 * mp + 2) \div 5 + 1
        m   == IF mp < 10 THEN mp + 3 ELSE mp - 9
        y   == yoe + era * 400 + (IF m <= 2 THEN 1 ELSE 0)
    IN  [year |-> y, month |-> m, day |-> d]

IsLeap(y) == (y % 4 = 0 /\ y % 100 # 0) \/ y % 400 = 0

DaysInMonth(y, m) ==
    IF m = 2 THEN (IF IsLeap(y) THEN 29 ELSE 28)
    ELSE IF m \in {4, 6, 9, 11} THEN 30 ELSE 31

\* str(date): YYYY-MM-DD
FormatDate(z) ==
    LET c == CivilFromDays(z)
    IN  Pad4(c.year) \o <<"-">> \o Pad2(c.month) \o <<"-">> \o Pad2(c.day)

Bad == -1

\* a DATE column value read from text: the day number, or Bad
ParseDate(s) ==
    IF /\ Len(s) = 10
       /\ s[5] = "-" /\ s[8] = "-"
       /\ AllDigits(SubSeq(s, 1, 4))
       /\ AllDigits(SubSeq(s, 6, 7))
       /\ AllDigits(SubSeq(s, 9, 10))
    THEN LET y == DigitsValue(SubSeq(s, 1, 4))
             m == DigitsValue(SubSeq(s, 6, 7))
             d == DigitsValue(SubSeq(s, 9, 10))
         IN  IF y >= 1 /\ m \in 1..12 /\ d >= 1 /\ d <= DaysInMonth(y, m)
             THEN DaysFromCivil(y, m, d)
             ELSE Bad
    ELSE Bad

(***************************************************************************)
(* Floats with at most three decimals, in thousandths                      *)
(***************************************************************************)
\* round(x, 2): to the nearest hundredth, ties to the even hundredth
Round2(x) ==
    LET q == x \div 10
        r == x % 10
    IN  IF r < 5 THEN 10 * q
        ELSE IF r > 5 THEN 10 * (q + 1)
        ELSE IF q % 2 = 0 THEN 10 * q ELSE 10 * (q + 1)

\* repr(x) as to_csv writes a float64: the shortest decimal that reads back
\* as x, with at least one digit after the point
ReprFloat(x) ==
    LET ip == x \div 1000
        fr == x % 1000
        frac == IF fr % 100 = 0 THEN <<DigitChars[(fr \div 100) + 1]>>
                ELSE IF fr % 10 = 0
                THEN <<DigitChars[(fr \div 100) + 1], DigitChars[((fr \div 10) % 10) + 1]>>
                ELSE <<DigitChars[(fr \div 100) + 1], DigitChars[((fr \div 10) % 10) + 1],
                       DigitChars[(fr % 10) + 1]>>
    IN  Digits(ip) \o <<".">> \o frac

\* position of the decimal point in s, 0 when there is none
PointAt(s) ==
    IF \E i \in 1..Len(s) : s[i] = "."
    THEN CHOOSE i \in 1..Len(s) : s[i] = "." /\ \A j \in 1..(i - 1) : s[j] # "."
    ELSE 0

\* number of digits written after the decimal point
Decimals(s) == IF PointAt(s) = 0 THEN 0 ELSE Len(s) - PointAt(s)

\* a FLOAT column value read from text, in thousandths, or Bad
ParseFloat(s) ==
    LET p == PointAt(s)
    IN  IF p = 0
        THEN (IF AllDigits(s) THEN 1000 * DigitsValue(s) ELSE Bad)
        ELSE LET ip == SubSeq(s, 1, p - 1)
                 fp == SubSeq(s, p + 1, Len(s))
             IN  IF AllDigits(ip) /\ AllDigits(fp) /\ Len(fp) <= 3
                 THEN 1000 * DigitsValue(ip)
                      + (IF Len(fp) = 1 THEN 100 * DigitsValue(fp)
                         ELSE IF Len(fp) = 2 THEN 10 * DigitsValue(fp)
                         ELSE DigitsValue(fp))
                 ELSE Bad

\* an INTEGER column value read from text, or Bad
ParseInt(s) == IF AllDigits(s) THEN DigitsValue(s) ELSE Bad


(***************************************************************************)
(* Configuration and schema                                                *)
(***************************************************************************)
\* schema_fields: the five columns, all REQUIRED
ColumnNames ==
    << <<"o", "r", "d", "e", "r", "_", "i", "d">>,
       <<"c", "u", "s", "t", "o", "m", "e", "r", "_", "n", "a", "m", "e">>,
       <<"o", "r", "d", "e", "r", "_", "a", "m", "o", "u", "n", "t">>,
       <<"o", "r", "d", "e", "r", "_", "d", "a", "t", "e">>,
       <<"p", "r", "o", "d", "u", "c", "t">> >>

\* num_orders passed by the DAG to the generator
NumOrders == 500

\* date_between(start_date='-30d', end_date='today')
WindowDays == 30

\* random.uniform(10.0, 1000.0), in thousandths
AmountLow == 10000
AmountHigh == 1000000

(***************************************************************************)
(* Values the name, word, amount and date sources may produce              *)
(***************************************************************************)
RickGrimes == <<"R", "i", "c", "k", " ", "G", "r", "i", "m", "e", "s">>
AnnLee == <<"A", "n", "n", " ", "L", "e", "e">>

WordSit == <<"s", "i", "t">>
WordQuia == <<"q", "u", "i", "a">>

\* samples of random.uniform before rounding; rounded they are 10.0, 10.5,
\* 99.99, 100.0, 123.46, 500.0, 500.01 and 1000.0
RawSampleList == <<10000, 10504, 99994, 100000, 123456, 500000, 500014, 999995>>

\* the (name, word) pairs and the amount samples drawn for a row of a direct call
DirectCustomers == {[name |-> RickGrimes, word |-> WordSit],
                    [name |-> AnnLee, word |-> WordQuia]}
DirectRawSamples == {10000, 10504, 123456, 999995} \cap (AmountLow..AmountHigh)

\* days before today drawn by date_between in a direct call
DayOffsets == {0, 15, WindowDays}

\* current dates: 2024-11-18 (the DAG's start_date) and 2024-03-15 (30 days
\* after 2024-02-14, across the leap day)
Todays == {DaysFromCivil(2024, 11, 18), DaysFromCivil(2024, 3, 15)}

(***************************************************************************)
(* generate_and_upload_sales_data                                          *)
(***************************************************************************)
\* variant: range(0, num_orders)
OrderIds_FromZero(n) == [i \in 1..n |-> i - 1]

\* "order_id": [i for i in range(1, num_orders + 1)]
OrderIds(n) == [i \in 1..n |-> i]

\* variant: the sample is not rounded
OrderAmount_Unrounded(raw) == raw

\* round(random.uniform(10.0, 1000.0), 2) for the sample raw
OrderAmount(raw) == Round2(raw)

\* variant: date_between(start_date='today', end_date='+30d')
OrderDate_Forward(now, offset) == now + offset

\* fake.date_between(start_date='-30d', end_date='today') for the drawn offset
OrderDate(now, offset) == now - offset

\* df = pd.DataFrame(data): row i of the frame, the columns drawn one by one
DataFrame(n, now, nameOf, rawOf, offsetOf, productOf) ==
    LET ids == OrderIds(n)
    IN
    [i \in 1..n |->
        [order_id      |-> ids[i],
         customer_name |-> nameOf[i],
         order_amount  |-> OrderAmount(rawOf[i]),
         order_date    |-> OrderDate(now, offsetOf[i]),
         product       |-> productOf[i]]]

\* the header line written by to_csv
Header == JoinComma(ColumnNames)

\* one data line written by to_csv(index=False)
ToCsvRow(row) ==
    JoinComma(<<Digits(row.order_id), row.customer_name, ReprFloat(row.order_amount),
                FormatDate(row.order_date), row.product>>)

\* df.to_csv(csv_buffer, index=False); csv_buffer.getvalue()
ToCsv(df) == <<Header>> \o [i \in 1..Len(df) |-> ToCsvRow(df[i])]

NoObject == <<>>
NoCall == [called |-> FALSE]

\* what the storage client may do: succeed, fail to build the client
\* (storage.Client()), or fail the upload (blob.upload_from_string)
StorageOutcomes == {"ok", "client_error", "upload_error"}

\* variant: the payload is not uploaded
UploadFromString_Skipped(object, csv_data, outcome) == object

\* blob.upload_from_string(csv_data): the object after the call
UploadFromString(object, csv_data, outcome) ==
    IF outcome = "ok" THEN csv_data ELSE object

\* variant: the storage calls are wrapped in try/except
CallResult_Swallowed(csv_data, outcome) == "None"

\* how the call ends: it returns "None" (the function has no return statement;
\* "csv_data" would be a return of the payload), or it has "raised" when an
\* exception of the storage client propagates (nothing is caught)
CallResult(csv_data, outcome) == IF outcome = "ok" THEN "None" ELSE "raised"

\* print(f"Data uploaded to gs://{bucket_name}/{gcs_path}")
Printed(lines, outcome) == IF outcome = "ok" THEN lines + 1 ELSE lines

\* one call generate_and_upload_sales_data(BUCKET_NAME, GCS_PATH, n)
GenerateAndUpload(n, nameOf, rawOf, offsetOf, productOf, outcome) ==
    LET df == DataFrame(n, today, nameOf, rawOf, offsetOf, productOf)
        csv_data == ToCsv(df)
    IN  /\ gcs' = UploadFromString(gcs, csv_data, outcome)
        /\ stdout' = Printed(stdout, outcome)
        /\ genCall' = [called     |-> TRUE,
                       num_orders |-> n,
                       now        |-> today,
                       csv_data   |-> csv_data,
                       before     |-> gcs,
                       after      |-> UploadFromString(gcs, csv_data, outcome),
                       storage    |-> outcome,
                       result     |-> CallResult(csv_data, outcome)]

(***************************************************************************)
(* Direct calls of the generator: every num_orders in 0..MaxOrders and     *)
(* every draw of the four sources                                          *)
(***************************************************************************)
\* the object left in the bucket by an earlier upload (header only), which a
\* direct call finds there
StaleObject == <<Header>>

EmptyWarehouse ==
    /\ base = <<>>
    /\ procedure = FALSE
    /\ transformed = <<>>
    /\ amountTable = <<>>
    /\ clock = 0

GenInit ==
    /\ today \in Todays
    /\ gcs = StaleObject
    /\ stdout = 0
    /\ genCall = NoCall
    /\ EmptyWarehouse
    /\ taskState = <<>>

CallGenerator ==
    /\ ~genCall.called
    /\ \E n \in 0..MaxOrders :
         \E whoOf \in [1..n -> DirectCustomers], rawOf \in [1..n -> DirectRawSamples],
            offsetOf \in [1..n -> DayOffsets], outcome \in StorageOutcomes :
              GenerateAndUpload(n, [i \in 1..n |-> whoOf[i].name], rawOf, offsetOf,
                                [i \in 1..n |-> whoOf[i].word], outcome)
    /\ UNCHANGED <<today, base, procedure, transformed, amountTable, taskState, clock>>

GenNext == CallGenerator

GenSpec == GenInit /\ [][GenNext]_vars


(***************************************************************************)
(* The warehouse jobs                                                      *)
(***************************************************************************)
\* one CSV line read against schema_fields: the row, or BadRow when a field
\* is missing or does not read as its column's type (all columns REQUIRED)
BadRow == [order_id |-> Bad]

ParseRow(line) ==
    LET f == SplitComma(line)
    IN  IF /\ Len(f) = Len(ColumnNames)
           /\ ParseInt(f[1]) # Bad
           /\ Len(f[2]) > 0
           /\ ParseFloat(f[3]) # Bad
           /\ ParseDate(f[4]) # Bad
           /\ Len(f[5]) > 0
        THEN [order_id      |-> ParseInt(f[1]),
              customer_name |-> f[2],
              order_amount  |-> ParseFloat(f[3]),
              order_date    |-> ParseDate(f[4]),
              product       |-> f[5]]
        ELSE BadRow

\* "skipLeadingRows": 1
SkipLeadingRows == 1

\* the rows a load job reads from the object: every line after the skipped ones
LoadedRows(object) ==
    [i \in 1..(Len(object) - SkipLeadingRows) |-> ParseRow(object[i + SkipLeadingRows])]

\* the load job fails when the object is missing or a line is rejected
LoadFails(object) ==
    \/ object = NoObject
    \/ \E i \in (SkipLeadingRows + 1)..Len(object) : ParseRow(object[i]) = BadRow

\* variant: the load job replaces the table
WriteAppend_Replacing(table, rows) == rows

\* "writeDisposition": "WRITE_APPEND"
WriteAppend(table, rows) == table \o rows

\* variant: the query jobs append to their destination tables
WriteTruncate_Keeping(table, rows) == table \o rows

\* "writeDisposition": "WRITE_TRUNCATE"
WriteTruncate(table, rows) == rows

\* CALL procedure(234, 'Rick Grimes', 150.00, '2024-11-18', 'Widget A')
CallOrderId == 234
CallAmount == 150000
CallRow ==
    [order_id      |-> CallOrderId,
     customer_name |-> RickGrimes,
     order_amount  |-> CallAmount,
     order_date    |-> ParseDate(<<"2", "0", "2", "4", "-", "1", "1", "-", "1", "8">>),
     product       |-> <<"W", "i", "d", "g", "e", "t", " ", "A">>]

\* the body of the procedure: INSERT INTO base VALUES(...)
InsertInto(table, row) == Append(table, row)

\* thresholds of the CASE expression, in thousandths
SmallBelow == 100000
MediumUpTo == 500000

\* variant: the Medium interval excludes its end points
OrderCategory_OpenInterval(amount) ==
    IF amount < SmallBelow THEN "Small"
    ELSE IF amount > SmallBelow /\ amount < MediumUpTo THEN "Medium"
    ELSE "Large"

\* CASE WHEN order_amount < 100 THEN 'Small'
\*      WHEN order_amount BETWEEN 100 AND 500 THEN 'Medium' ELSE 'Large' END
OrderCategory(amount) ==
    IF amount < SmallBelow THEN "Small"
    ELSE IF amount >= SmallBelow /\ amount <= MediumUpTo THEN "Medium"
    ELSE "Large"

\* transform_bq_qry over the base table, at warehouse time now
TransformQuery(table, now) ==
    [i \in 1..Len(table) |->
        [order_id       |-> table[i].order_id,
         customer_name  |-> table[i].customer_name,
         order_amount   |-> table[i].order_amount,
         order_category |-> OrderCategory(table[i].order_amount),
         order_date     |-> table[i].order_date,
         product        |-> table[i].product,
         load_timestamp |-> now]]

\* code points of the characters that occur in names, in increasing order
Alphabet ==
    <<" ",
      "A", "B", "C", "D", "E", "F", "G", "H", "I", "J", "K", "L", "M",
      "N", "O", "P", "Q", "R", "S", "T", "U", "V", "W", "X", "Y", "Z",
      "a", "b", "c", "d", "e", "f", "g", "h", "i", "j", "k", "l", "m",
      "n", "o", "p", "q", "r", "s", "t", "u", "v", "w", "x", "y", "z">>

CharCode(c) == CHOOSE i \in 1..Len(Alphabet) : Alphabet[i] = c

\* a < b as strings (ORDER BY customer_name)
RECURSIVE StringLess(_, _)
StringLess(a, b) ==
    IF Len(b) = 0 THEN FALSE
    ELSE IF Len(a) = 0 THEN TRUE
    ELSE IF a[1] # b[1] THEN CharCode(a[1]) < CharCode(b[1])
    ELSE StringLess(Tail(a), Tail(b))

RECURSIVE SortStrings(_)
SortStrings(S) ==
    IF S = {} THEN <<>>
    ELSE LET least == CHOOSE a \in S : \A b \in S \ {a} : StringLess(a, b)
         IN  <<least>> \o SortStrings(S \ {least})

\* SUM(order_amount) over rows lo..hi of the table that belong to the customer
RECURSIVE SumAmount(_, _, _, _)
SumAmount(table, name, lo, hi) ==
    IF lo > hi THEN 0
    ELSE IF lo = hi
    THEN (IF table[lo].customer_name = name THEN table[lo].order_amount ELSE 0)
    ELSE LET mid == (lo + hi) \div 2
         IN  SumAmount(table, name, lo, mid) + SumAmount(table, name, mid + 1, hi)

\* transform_bq_qry_2: GROUP BY customer_name ORDER BY customer_name
CustomerQuery(table) ==
    LET names == SortStrings({table[i].customer_name : i \in 1..Len(table)})
    IN  [k \in 1..Len(names) |->
            [customer_name    |-> names[k],
             number_of_orders |-> Cardinality({i \in 1..Len(table) :
                                                 table[i].customer_name = names[k]}),
             total_spent      |-> SumAmount(table, names[k], 1, Len(table))]]


(***************************************************************************)
(* The DAG: tasks, dependencies and the scheduler                          *)
(***************************************************************************)
TaskIds == {"start", "generate_sales_data", "load_to_bigquery", "insert_sales_orders",
            "call_procedure", "transform_bigquery_data", "transform_bigquery_data_2",
            "end"}

\* variant: insert_sales_orders hangs off start instead of load_to_bigquery
Edges_LoadUnordered ==
    {<<"start", "generate_sales_data">>,
     <<"generate_sales_data", "load_to_bigquery">>,
     <<"start", "insert_sales_orders">>,
     <<"insert_sales_orders", "call_procedure">>,
     <<"call_procedure", "transform_bigquery_data">>,
     <<"transform_bigquery_data", "transform_bigquery_data_2">>,
     <<"transform_bigquery_data_2", "end">>}

\* start_task >> generate_sales_data >> ... >> end_task
Edges ==
    {<<"start", "generate_sales_data">>,
     <<"generate_sales_data", "load_to_bigquery">>,
     <<"load_to_bigquery", "insert_sales_orders">>,
     <<"insert_sales_orders", "call_procedure">>,
     <<"call_procedure", "transform_bigquery_data">>,
     <<"transform_bigquery_data", "transform_bigquery_data_2">>,
     <<"transform_bigquery_data_2", "end">>}

Upstream(t) == {u \in TaskIds : <<u, t>> \in Edges}

\* every task reachable from the tasks of S along the dependencies
RECURSIVE Reachable(_)
Reachable(S) ==
    LET next == S \cup {v \in TaskIds : \E u \in S : <<u, v>> \in Edges}
    IN  IF next = S THEN S ELSE Reachable(next)

Downstream(t) == Reachable({t}) \ {t}

Runs == 1..MaxRuns

\* the scheduler starts a task once all its upstream tasks have succeeded
\* (trigger rule all_success)
Runnable(r, t) ==
    /\ taskState[r][t] = "none"
    /\ \A u \in Upstream(t) : taskState[r][u] = "success"

Succeed(r, t) == taskState' = [taskState EXCEPT ![r][t] = "success"]

\* a failed task (retries = 0) leaves its downstream tasks upstream_failed
Fail(r, t) ==
    taskState' = [taskState EXCEPT ![r] =
                    [u \in TaskIds |->
                        IF u = t THEN "failed"
                        ELSE IF u \in Downstream(t) THEN "upstream_failed"
                        ELSE taskState[r][u]]]

\* the draws of the seeded name, word, amount and date sources for row i
Seeds == {0, 3}
NameList == <<RickGrimes, AnnLee>>
ProductList == <<WordSit, WordQuia>>
SeedName(s, i) == NameList[((i + s) % Len(NameList)) + 1]
SeedRaw(s, i) == RawSampleList[((i + s) % Len(RawSampleList)) + 1]
SeedOffset(s, i) == (7 * i + s) % (WindowDays + 1)
SeedProduct(s, i) == ProductList[(((i \div 2) + s) % Len(ProductList)) + 1]

Init ==
    /\ today \in Todays
    /\ gcs = NoObject
    /\ stdout = 0
    /\ genCall = NoCall
    /\ EmptyWarehouse
    /\ taskState = [r \in Runs |-> [t \in TaskIds |-> "absent"]]

Finished(r) == \A t \in TaskIds : taskState[r][t] \in {"success", "failed", "upstream_failed"}

\* a manual trigger creates the next DAG run (schedule_interval=None); the
\* runs modelled are triggered one after another, each once the one before
\* has ended
TriggerRun ==
    /\ \E r \in Runs :
         /\ taskState[r]["start"] = "absent"
         /\ \A q \in 1..(r - 1) : Finished(q)
         /\ taskState' = [taskState EXCEPT ![r] = [t \in TaskIds |-> "none"]]
    /\ UNCHANGED <<today, gcs, stdout, genCall, base, procedure, transformed,
                   amountTable, clock>>

StartTask ==
    /\ \E r \in Runs, t \in TaskIds :
         /\ Runnable(r, t)
         /\ taskState' = [taskState EXCEPT ![r][t] = "running"]
    /\ UNCHANGED <<today, gcs, stdout, genCall, base, procedure, transformed,
                   amountTable, clock>>

\* EmptyOperator "start" and "end"
FinishEmpty ==
    /\ \E r \in Runs, t \in {"start", "end"} :
         /\ taskState[r][t] = "running"
         /\ Succeed(r, t)
    /\ UNCHANGED <<today, gcs, stdout, genCall, base, procedure, transformed,
                   amountTable, clock>>

\* PythonOperator generate_sales_data
FinishGenerate ==
    /\ \E r \in Runs, s \in Seeds, outcome \in StorageOutcomes :
         /\ taskState[r]["generate_sales_data"] = "running"
         /\ GenerateAndUpload(NumOrders,
                              [i \in 1..NumOrders |-> SeedName(s, i)],
                              [i \in 1..NumOrders |-> SeedRaw(s, i)],
                              [i \in 1..NumOrders |-> SeedOffset(s, i)],
                              [i \in 1..NumOrders |-> SeedProduct(s, i)],
                              outcome)
         /\ IF genCall'.result = "raised"
            THEN Fail(r, "generate_sales_data")
            ELSE Succeed(r, "generate_sales_data")
    /\ UNCHANGED <<today, base, procedure, transformed, amountTable, clock>>

\* BigQueryInsertJobOperator load_to_bigquery
FinishLoad ==
    /\ \E r \in Runs :
         /\ taskState[r]["load_to_bigquery"] = "running"
         /\ IF LoadFails(gcs)
            THEN /\ Fail(r, "load_to_bigquery")
                 /\ base' = base
            ELSE /\ Succeed(r, "load_to_bigquery")
                 /\ base' = WriteAppend(base, LoadedRows(gcs))
    /\ UNCHANGED <<today, gcs, stdout, genCall, procedure, transformed, amountTable, clock>>

\* BigQueryInsertJobOperator insert_sales_orders: CREATE OR REPLACE PROCEDURE
FinishCreateProcedure ==
    /\ \E r \in Runs :
         /\ taskState[r]["insert_sales_orders"] = "running"
         /\ Succeed(r, "insert_sales_orders")
    /\ procedure' = TRUE
    /\ UNCHANGED <<today, gcs, stdout, genCall, base, transformed, amountTable, clock>>

\* BigQueryInsertJobOperator call_procedure
FinishCallProcedure ==
    /\ \E r \in Runs :
         /\ taskState[r]["call_procedure"] = "running"
         /\ IF procedure
            THEN /\ Succeed(r, "call_procedure")
                 /\ base' = InsertInto(base, CallRow)
            ELSE /\ Fail(r, "call_procedure")
                 /\ base' = base
    /\ UNCHANGED <<today, gcs, stdout, genCall, procedure, transformed, amountTable, clock>>

\* BigQueryInsertJobOperator transform_bigquery_data
FinishTransform ==
    /\ \E r \in Runs :
         /\ taskState[r]["transform_bigquery_data"] = "running"
         /\ Succeed(r, "transform_bigquery_data")
    /\ clock' = clock + 1
    /\ transformed' = WriteTruncate(transformed, TransformQuery(base, clock + 1))
    /\ UNCHANGED <<today, gcs, stdout, genCall, base, procedure, amountTable>>

\* BigQueryInsertJobOperator transform_bigquery_data_2
FinishTransform2 ==
    /\ \E r \in Runs :
         /\ taskState[r]["transform_bigquery_data_2"] = "running"
         /\ Succeed(r, "transform_bigquery_data_2")
    /\ amountTable' = WriteTruncate(amountTable, CustomerQuery(base))
    /\ UNCHANGED <<today, gcs, stdout, genCall, base, procedure, transformed, clock>>

Next ==
    \/ TriggerRun
    \/ StartTask
    \/ FinishEmpty
    \/ FinishGenerate
    \/ FinishLoad
    \/ FinishCreateProcedure
    \/ FinishCallProcedure
    \/ FinishTransform
    \/ FinishTransform2

Spec == Init /\ [][Next]_vars


(***************************************************************************)
(* Properties                                                              *)
(***************************************************************************)
\* the data lines of the payload built by the last call
DataLines == Tail(genCall.csv_data)

\* the header the output payload is documented to start with
HeaderText ==
    <<"o", "r", "d", "e", "r", "_", "i", "d", ",", "c", "u", "s", "t", "o", "m", "e", "r", "_", "n", "a", "m", "e", ",", "o", "r", "d", "e", "r", "_", "a", "m", "o", "u", "n", "t", ",", "o", "r", "d", "e", "r", "_", "d", "a", "t", "e", ",", "p", "r", "o", "d", "u", "c", "t">>

\* C1: the payload is one header line followed by exactly num_orders data
\* lines, and the order_id field of the i-th data line reads i; for
\* num_orders = 0 the payload is the header line only.
C1_HeaderAndSequentialIds ==
    genCall.called =>
        /\ Len(genCall.csv_data) = genCall.num_orders + 1
        /\ genCall.csv_data[1] = HeaderText
        /\ \A i \in 1..genCall.num_orders :
             /\ DataLines[i] # HeaderText
             /\ ParseInt(SplitComma(DataLines[i])[1]) = i
        /\ (genCall.num_orders = 0 => genCall.csv_data = <<HeaderText>>)

C1_Witness ==
    /\ genCall.called
    /\ genCall.num_orders >= 2
    /\ ParseInt(SplitComma(DataLines[2])[1]) = 2

\* C2 as stated: a call leaves object storage unchanged, does no I/O and
\* returns the serialized CSV text.
C2_NoSideEffectReturnsPayload ==
    genCall.called =>
        /\ genCall.after = genCall.before
        /\ stdout = 0
        /\ genCall.result = "csv_data"

\* C2 amended: a call that returns has itself replaced the object at
\* gs://bucket/gcs_path by the serialized CSV text and printed one line, and
\* it returns None, never the payload.
C2_UploadsAndReturnsNone ==
    genCall.called =>
        /\ genCall.result # "csv_data"
        /\ (genCall.result = "None" =>
              /\ genCall.after = genCall.csv_data
              /\ gcs = genCall.csv_data
              /\ stdout = 1)

C2_Witness ==
    /\ genCall.called
    /\ genCall.result = "None"
    /\ genCall.num_orders >= 1
    /\ genCall.before = StaleObject
    /\ gcs # genCall.before

\* C3 as stated: a call never ends in an error, whatever the storage client
\* does.
C3_NeverFails == genCall.called => genCall.result # "raised"

\* C3 amended: the payload is always built, and the call ends in an error
\* exactly when the storage client raises (building the client or uploading).
C3_FailsOnlyWhenStorageRaises ==
    genCall.called =>
        /\ Len(genCall.csv_data) >= 1
        /\ (genCall.result = "raised" <=> genCall.storage # "ok")

C3_Witness ==
    /\ genCall.called
    /\ genCall.num_orders = 0
    /\ genCall.storage = "upload_error"
    /\ genCall.result = "raised"

IsDateText(s) ==
    /\ Len(s) = 10
    /\ \A i \in {1, 2, 3, 4, 6, 7, 9, 10} : IsDigit(s[i])
    /\ s[5] = "-"
    /\ s[8] = "-"

\* C4 as stated: every order_amount field has exactly 2 decimal places, every
\* order_date field is YYYY-MM-DD and the header is the documented one.
C4_ExactlyTwoDecimals ==
    genCall.called =>
        /\ genCall.csv_data[1] = HeaderText
        /\ \A i \in 1..Len(DataLines) :
             /\ Decimals(SplitComma(DataLines[i])[3]) = 2
             /\ IsDateText(SplitComma(DataLines[i])[4])

\* C4 amended: every order_amount field is the shortest decimal form of the
\* rounded amount, with one or two decimal places and no trailing zero after
\* the first (10.5 is written 10.5, 250 is written 250.0); every order_date
\* field is YYYY-MM-DD and the header is the documented one.
C4_OneOrTwoDecimals ==
    genCall.called =>
        /\ genCall.csv_data[1] = HeaderText
        /\ \A i \in 1..Len(DataLines) :
             LET amount == SplitComma(DataLines[i])[3]
             IN  /\ Decimals(amount) \in {1, 2}
                 /\ (Decimals(amount) = 2 => amount[Len(amount)] # "0")
                 /\ \A j \in 1..Len(amount) : j # PointAt(amount) => IsDigit(amount[j])
                 /\ IsDateText(SplitComma(DataLines[i])[4])

C4_Witness ==
    /\ genCall.called
    /\ genCall.num_orders >= 2
    /\ SplitComma(DataLines[1])[3] = <<"1", "0", ".", "5">>
    /\ SplitComma(DataLines[2])[3] = <<"1", "2", "3", ".", "4", "6">>
    /\ SplitComma(DataLines[2])[4] = <<"2", "0", "2", "4", "-", "0", "2", "-", "2", "9">>

\* C5: reading the payload back gives num_orders records, each with an
\* order_amount in [10.00, 1000.00] of at most 2 decimal digits and an
\* order_date in [today - 30 days, today].
C5_RoundTripFieldConstraints ==
    genCall.called =>
        /\ Len(DataLines) = genCall.num_orders
        /\ \A i \in 1..Len(DataLines) :
             LET row == ParseRow(DataLines[i])
             IN  /\ row # BadRow
                 /\ row.order_amount % 10 = 0
                 /\ row.order_amount \div 10 \in 1000..100000
                 /\ row.order_date >= genCall.now - 30
                 /\ row.order_date <= genCall.now

C5_Witness ==
    /\ genCall.called
    /\ genCall.num_orders >= 2
    /\ ParseRow(DataLines[1]).order_amount = 1000000
    /\ ParseRow(DataLines[1]).order_date = genCall.now - 30
    /\ ParseRow(DataLines[2]).order_amount = 10000
    /\ ParseRow(DataLines[2]).order_date = genCall.now


Completes(r, t) == taskState[r][t] = "running" /\ taskState'[r][t] = "success"

\* C6: when load_to_bigquery completes on a staged CSV of N data rows, the
\* base table is what it was before followed by exactly N new rows, the i-th
\* of which is the i-th data line of the CSV with all five columns present;
\* the header line is not ingested and no earlier row is removed or changed.
C6_LoadAppendsDataRows ==
    [][\A r \in Runs :
          Completes(r, "load_to_bigquery") =>
              LET n == Len(gcs) - 1
              IN  /\ Len(base') = Len(base) + n
                  /\ SubSeq(base', 1, Len(base)) = base
                  /\ \A i \in 1..n :
                       LET row == base'[Len(base) + i]
                       IN  /\ DOMAIN row = {"order_id", "customer_name", "order_amount",
                                            "order_date", "product"}
                           /\ row.customer_name # <<>>
                           /\ row.product # <<>>
                           /\ ToCsvRow(row) = gcs[i + 1]
                           /\ ToCsvRow(row) # gcs[1]]_vars

C6_Witness ==
    /\ taskState[2]["load_to_bigquery"] = "success"
    /\ taskState[2]["insert_sales_orders"] = "none"
    /\ Len(base) = 2 * 500 + 1
    /\ base[500 + 1].order_id = 234
    /\ base[500 + 2].order_id = 1

\* the order of the tasks in a run
TaskOrder ==
    <<"start", "generate_sales_data", "load_to_bigquery", "insert_sales_orders",
      "call_procedure", "transform_bigquery_data", "transform_bigquery_data_2", "end">>

\* C7: in every run a task is started only after the task before it in the
\* order start, generate_sales_data, load_to_bigquery, insert_sales_orders,
\* call_procedure, transform_bigquery_data, transform_bigquery_data_2, end has
\* succeeded; no two tasks of a run execute at the same time; the load runs
\* only after the upload of its run, the call only once the procedure exists.
C7_StrictLinearOrder ==
    \A r \in Runs :
        /\ \A i \in 2..Len(TaskOrder) :
             taskState[r][TaskOrder[i]] \in {"running", "success"}
                 => taskState[r][TaskOrder[i - 1]] = "success"
        /\ Cardinality({t \in TaskIds : taskState[r][t] = "running"}) <= 1
        /\ taskState[r]["load_to_bigquery"] = "running"
             => /\ genCall.called /\ genCall.result = "None"
                /\ gcs = genCall.csv_data
        /\ taskState[r]["call_procedure"] = "running" => procedure

C7_Witness ==
    /\ \A t \in TaskIds : taskState[1][t] = "success"
    /\ taskState[2]["call_procedure"] = "running"

Complete(r) == \A t \in TaskIds : taskState[r][t] = "success"

Triggered == {r \in Runs : taskState[r]["start"] # "absent"}

RECURSIVE SumOrders(_)
SumOrders(rows) ==
    IF rows = <<>> THEN 0 ELSE rows[1].number_of_orders + SumOrders(Tail(rows))

\* C8: once k >= 1 runs, one after another from an empty warehouse, are all
\* complete, the base table holds k * (N + 1) rows, the categorized table one
\* row per base-table row, and the per-customer table one row per distinct
\* customer_name, with number_of_orders summing to the base-table row count.
C8_TableCardinalities ==
    (Triggered # {} /\ \A r \in Triggered : Complete(r)) =>
        /\ Len(base) = Cardinality(Triggered) * (500 + 1)
        /\ Len(transformed) = Len(base)
        /\ \A i \in 1..Len(base) : transformed[i].order_id = base[i].order_id
        /\ Len(amountTable)
             = Cardinality({base[i].customer_name : i \in 1..Len(base)})
        /\ \A i, j \in 1..Len(amountTable) :
             i # j => amountTable[i].customer_name # amountTable[j].customer_name
        /\ SumOrders(amountTable) = Len(base)

C8_Witness ==
    /\ Cardinality(Triggered) = 2
    /\ \A r \in Triggered : Complete(r)
    /\ Len(transformed) = 1002
    /\ Len(amountTable) = 2

\* C9: after a complete run on an initially empty table, no two rows of the
\* base table (the 500 loaded rows and the row inserted by call_procedure)
\* carry the same order_id.
C9_OrderIdUnique ==
    (Complete(1) /\ Cardinality(Triggered) = 1) =>
        \A i, j \in 1..Len(base) : i # j => base[i].order_id # base[j].order_id

\* C10: when transform_bigquery_data completes, the categorized table has one
\* row per base-table row, with order_category 'Small' exactly when the amount
\* is below 100, 'Medium' exactly when it is from 100 to 500 inclusive,
\* 'Large' exactly when it is above 500, and the other five columns unchanged.
C10_CategoryByAmount ==
    [][\A r \in Runs :
          Completes(r, "transform_bigquery_data") =>
              /\ Len(transformed') = Len(base)
              /\ \A i \in 1..Len(base) :
                   LET out == transformed'[i]
                       amount == base[i].order_amount
                   IN  /\ out.order_category \in {"Small", "Medium", "Large"}
                       /\ (out.order_category = "Small" <=> amount < 100000)
                       /\ (out.order_category = "Medium"
                             <=> (amount >= 100000 /\ amount <= 500000))
                       /\ (out.order_category = "Large" <=> amount > 500000)
                       /\ out.order_id = base[i].order_id
                       /\ out.customer_name = base[i].customer_name
                       /\ out.order_amount = base[i].order_amount
                       /\ out.order_date = base[i].order_date
                       /\ out.product = base[i].product]_vars

C10_Witness ==
    /\ taskState[1]["transform_bigquery_data"] = "success"
    /\ \E i \in 1..Len(transformed) :
         transformed[i].order_amount = 100000 /\ transformed[i].order_category = "Medium"
    /\ \E i \in 1..Len(transformed) :
         transformed[i].order_amount = 500000 /\ transformed[i].order_category = "Medium"
    /\ \E i \in 1..Len(transformed) :
         transformed[i].order_amount = 99990 /\ transformed[i].order_category = "Small"
    /\ \E i \in 1..Len(transformed) :
         transformed[i].order_amount = 500010 /\ transformed[i].order_category = "Large"

=============================================================================
